---- MODULE Spec2Model ----
(***************************************************************************)
(* Data Quality Dashboard (src/data-app.py): the reshaping pipeline        *)
(* (Record Filter, Query Descriptor Parser, Offender Expander) and the     *)
(* page script that is re-run on every user interaction.                   *)
(*                                                                         *)
(* A serialized string is a sequence of lexical tokens; json_loads is a    *)
(* recursive-descent parser over it, so a truncated or ill-nested string   *)
(* fails to parse and key order/duplicates behave as in the source.        *)
(***************************************************************************)
EXTENDS Integers, Sequences, FiniteSets, TLC

\* ------------------------------------------------------------------ bounds
MaxRows == 2
MaxOffenders == 2

\* ------------------------------------------------------------- JSON values
Str(s) == [k |-> "str", s |-> s, n |-> 0]
Num(n) == [k |-> "num", s |-> "", n |-> n]
Null == [k |-> "null", s |-> "", n |-> 0]
Arr(items) == [k |-> "arr", items |-> items]
Obj(d) == [k |-> "obj", d |-> d]
EmptyDict == [x \in {} |-> Null]

\* python truthiness of a parsed value
Truthy(v) ==
    CASE v.k = "str" -> v.s # ""
      [] v.k = "num" -> v.n # 0
      [] v.k = "null" -> FALSE
      [] v.k = "arr" -> v.items # <<>>
      [] v.k = "obj" -> DOMAIN v.d # {}

\* dict.get(key, default)
DictGet(d, key, default) == IF key \in DOMAIN d THEN d[key] ELSE default

\* ------------------------------------------------------------------ tokens
Tok(c, s, n) == [c |-> c, s |-> s, n |-> n]
LB == Tok("[", "", 0)
RB == Tok("]", "", 0)
LC == Tok("{", "", 0)
RC == Tok("}", "", 0)
COLON == Tok(":", "", 0)
COMMA == Tok(",", "", 0)
WS == Tok("ws", "", 0)
StrT(s) == Tok("str", s, 0)
NumT(n) == Tok("num", "", n)
NullT == Tok("null", "", 0)
WordT(s) == Tok("word", s, 0)

\* a table cell: a string (token sequence) or a non-string value (NaN)
Cell(toks) == [isStr |-> TRUE, toks |-> toks]
NaN == [isStr |-> FALSE, toks |-> <<>>]

\* --------------------------------------------------------------- json.loads
ParseFail == [ok |-> FALSE, val |-> Null, next |-> 0]

RECURSIVE ParseValue(_, _)
RECURSIVE ParseElements(_, _, _)
RECURSIVE ParseMembers(_, _, _)

ParseElements(ts, i, acc) ==
    LET v == ParseValue(ts, i) IN
    IF ~v.ok \/ v.next > Len(ts) THEN ParseFail
    ELSE IF ts[v.next].c = "," THEN ParseElements(ts, v.next + 1, Append(acc, v.val))
    ELSE IF ts[v.next].c = "]"
         THEN [ok |-> TRUE, val |-> Arr(Append(acc, v.val)), next |-> v.next + 1]
    ELSE ParseFail

ParseMembers(ts, i, d) ==
    IF i + 2 > Len(ts) \/ ts[i].c # "str" \/ ts[i + 1].c # ":" THEN ParseFail
    ELSE LET v == ParseValue(ts, i + 2)
             d2 == (ts[i].s :> v.val) @@ d
         IN IF ~v.ok \/ v.next > Len(ts) THEN ParseFail
            ELSE IF ts[v.next].c = "," THEN ParseMembers(ts, v.next + 1, d2)
            ELSE IF ts[v.next].c = "}"
                 THEN [ok |-> TRUE, val |-> Obj(d2), next |-> v.next + 1]
            ELSE ParseFail

ParseValue(ts, i) ==
    IF i > Len(ts) THEN ParseFail
    ELSE CASE ts[i].c = "[" ->
                IF i + 1 <= Len(ts) /\ ts[i + 1].c = "]"
                THEN [ok |-> TRUE, val |-> Arr(<<>>), next |-> i + 2]
                ELSE ParseElements(ts, i + 1, <<>>)
           [] ts[i].c = "{" ->
                IF i + 1 <= Len(ts) /\ ts[i + 1].c = "}"
                THEN [ok |-> TRUE, val |-> Obj(EmptyDict), next |-> i + 2]
                ELSE ParseMembers(ts, i + 1, EmptyDict)
           [] ts[i].c = "str" -> [ok |-> TRUE, val |-> Str(ts[i].s), next |-> i + 1]
           [] ts[i].c = "num" -> [ok |-> TRUE, val |-> Num(ts[i].n), next |-> i + 1]
           [] ts[i].c = "null" -> [ok |-> TRUE, val |-> Null, next |-> i + 1]
           [] OTHER -> ParseFail

IsNotWs(t) == t.c # "ws"

\* json.loads(cell): TypeError on a non-string, JSONDecodeError on malformed text
json_loads(cell) ==
    IF ~cell.isStr THEN [ok |-> FALSE, val |-> Null]
    ELSE LET ts == SelectSeq(cell.toks, IsNotWs)
             r == ParseValue(ts, 1)
         IN IF r.ok /\ r.next = Len(ts) + 1
            THEN [ok |-> TRUE, val |-> r.val]
            ELSE [ok |-> FALSE, val |-> Null]

\* ------------------------------------------------------- sequence helpers
RECURSIVE Flatten(_)
Flatten(ss) == IF ss = <<>> THEN <<>> ELSE Head(ss) \o Flatten(Tail(ss))

RECURSIVE SumOcc(_)
\* sum of the OCCURRENCES column of a frame of ExpandedRows
SumOcc(rows) == IF rows = <<>> THEN 0 ELSE Head(rows).OCCURRENCES.n + SumOcc(Tail(rows))

SeqsUpTo(S, n) == UNION {[1..k -> S] : k \in 0..n}

Range(f) == {f[i] : i \in DOMAIN f}

\* ---------------------------------------------------------- Record Filter
PREFIX == <<LB, LC, StrT("OCCURRENCES")>>

\* str.startswith
StartsWith(toks, pre) ==
    Len(toks) >= Len(pre) /\ SubSeq(toks, 1, Len(pre)) = pre

\* faulty variant: only the opening of the prefix is compared
filter_conditions_short(value) == value.isStr /\ StartsWith(value.toks, <<LB, LC>>)

filter_conditions(value) == value.isStr /\ StartsWith(value.toks, PREFIX)

KeepRow(row) == filter_conditions(row.TEST_RESULT_VALUE)

\* -------------------------------------------------- Query Descriptor Parser
PyFalse == Num(0)
QueryFail == [ok |-> FALSE, table |-> Null, column |-> Null, value |-> Null]

\* faulty variant: TABLE_NAME_MAIN is used whenever the key is present
parse_query_present(query) ==
    LET p == json_loads(query) IN
    IF ~p.ok \/ p.val.k # "obj" THEN QueryFail
    ELSE LET query_json == p.val.d IN
         [ok |-> TRUE,
          table |-> IF "TABLE_NAME_MAIN" \in DOMAIN query_json
                    THEN query_json["TABLE_NAME_MAIN"]
                    ELSE DictGet(query_json, "TABLE_NAME", Str("")),
          column |-> DictGet(query_json, "COLUMN_NAME", Str("")),
          value |-> DictGet(query_json, "VALUE", Str(""))]

parse_query(query) ==
    LET p == json_loads(query) IN
    IF ~p.ok \/ p.val.k # "obj" THEN QueryFail
    ELSE LET query_json == p.val.d IN
         [ok |-> TRUE,
          table |-> IF Truthy(DictGet(query_json, "TABLE_NAME_MAIN", PyFalse))
                    THEN DictGet(query_json, "TABLE_NAME_MAIN", Null)
                    ELSE DictGet(query_json, "TABLE_NAME", Str("")),
          column |-> DictGet(query_json, "COLUMN_NAME", Str("")),
          value |-> DictGet(query_json, "VALUE", Str(""))]

\* the row with its TABLE, COLUMN and CRITERIA columns assigned
Describe(row) ==
    LET q == parse_query(row.TEST_PARAMETERS) IN
    [TEST_NAME |-> row.TEST_NAME, TEST_PARAMETERS |-> row.TEST_PARAMETERS,
     TEST_RESULT_VALUE |-> row.TEST_RESULT_VALUE, TEST_QUERY |-> row.TEST_QUERY,
     TABLE |-> q.table, COLUMN |-> q.column, CRITERIA |-> q.value]

\* -------------------------------------------------------- Offender Expander
\* faulty variant: a missing OFFENDERS key gives None
ExpandedRowNoneDefault(row, offender) ==
    [TABLE |-> row.TABLE,
     COLUMN |-> row.COLUMN,
     TEST_NAME |-> row.TEST_NAME,
     CRITERIA |-> row.CRITERIA,
     OFFENDERS |-> DictGet(offender.d, "OFFENDERS", Null),
     OCCURRENCES |-> DictGet(offender.d, "OCCURRENCES", Num(0)),
     TEST_QUERY |-> row.TEST_QUERY]

\* faulty variant: a missing OCCURRENCES key counts as one occurrence
ExpandedRowOneDefault(row, offender) ==
    [TABLE |-> row.TABLE,
     COLUMN |-> row.COLUMN,
     TEST_NAME |-> row.TEST_NAME,
     CRITERIA |-> row.CRITERIA,
     OFFENDERS |-> DictGet(offender.d, "OFFENDERS", Str("")),
     OCCURRENCES |-> DictGet(offender.d, "OCCURRENCES", Num(1)),
     TEST_QUERY |-> row.TEST_QUERY]

ExpandedRow(row, offender) ==
    [TABLE |-> row.TABLE,
     COLUMN |-> row.COLUMN,
     TEST_NAME |-> row.TEST_NAME,
     CRITERIA |-> row.CRITERIA,
     OFFENDERS |-> DictGet(offender.d, "OFFENDERS", Str("")),
     OCCURRENCES |-> DictGet(offender.d, "OCCURRENCES", Num(0)),
     TEST_QUERY |-> row.TEST_QUERY]

expand_data(row) ==
    LET p == json_loads(row.TEST_RESULT_VALUE)
        offenders == p.val
    IN IF ~p.ok THEN [ok |-> FALSE, rows |-> <<>>]
       ELSE CASE offenders.k = "arr" ->
                   IF \A j \in 1..Len(offenders.items) : offenders.items[j].k = "obj"
                   THEN [ok |-> TRUE,
                         rows |-> [j \in 1..Len(offenders.items) |->
                                      ExpandedRow(row, offenders.items[j])]]
                   ELSE [ok |-> FALSE, rows |-> <<>>]
              \* a value that passed the prefix filter and parses is an array;
              \* anything else has no .get / is not iterable as offenders
              [] OTHER -> [ok |-> FALSE, rows |-> <<>>]

\* the lists of df.apply(expand_data, axis=1), exploded into one frame
Explode(rows) == Flatten([i \in 1..Len(rows) |-> expand_data(rows[i]).rows])

\* ------------------------------------------------------------------ inputs
RECURSIVE JoinPairs(_)
\* "k1":v1,"k2":v2,...
JoinPairs(pairs) ==
    IF pairs = <<>> THEN <<>>
    ELSE <<StrT(Head(pairs)[1]), COLON, Head(pairs)[2]>>
         \o (IF Len(pairs) > 1 THEN <<COMMA>> ELSE <<>>) \o JoinPairs(Tail(pairs))

ObjToks(pairs) == <<LC>> \o JoinPairs(pairs) \o <<RC>>

RECURSIVE JoinElems(_)
JoinElems(elems) ==
    IF elems = <<>> THEN <<>>
    ELSE Head(elems) \o (IF Len(elems) > 1 THEN <<COMMA>> ELSE <<>>) \o JoinElems(Tail(elems))

ArrToks(elems) == <<LB>> \o JoinElems(elems) \o <<RB>>

\* serialized elements of a TEST_RESULT_VALUE array
OffenderElems ==
    { ObjToks(<< <<"OCCURRENCES", NumT(1)>> >>),
      ObjToks(<< <<"OCCURRENCES", NumT(2)>>, <<"OFFENDERS", StrT("x")>> >>),
      ObjToks(<< <<"OFFENDERS", StrT("y")>> >>),
      ObjToks(<<>>),
      ObjToks(<< <<"OFFENDERS", StrT("x")>>, <<"OCCURRENCES", NumT(3)>> >>),
      <<NumT(5)>> }

GoodResult == ArrToks(<< ObjToks(<< <<"OCCURRENCES", NumT(2)>>, <<"OFFENDERS", StrT("x")>> >>) >>)
TwoResult == ArrToks(<< ObjToks(<< <<"OCCURRENCES", NumT(1)>> >>),
                        ObjToks(<< <<"OCCURRENCES", NumT(2)>>, <<"OFFENDERS", StrT("x")>> >>) >>)

ResultCells ==
    { Cell(ArrToks(es)) : es \in SeqsUpTo(OffenderElems, MaxOffenders) }
    \cup { Cell(<<WordT("PASS")>>), NaN,
           \* valid array, but white space after the bracket
           Cell(<<LB, WS>> \o Tail(GoodResult)),
           \* the prefix, then truncated
           Cell(SubSeq(GoodResult, 1, Len(GoodResult) - 1)),
           Cell(SubSeq(TwoResult, 1, 6)),
           Cell(PREFIX) }

MainOpts == { <<>>, << <<"TABLE_NAME_MAIN", StrT("")>> >>, << <<"TABLE_NAME_MAIN", StrT("A")>> >>,
              << <<"TABLE_NAME_MAIN", NullT>> >> }
TableOpts == { <<>>, << <<"TABLE_NAME", StrT("B")>> >> }
ColumnOpts == { <<>>, << <<"COLUMN_NAME", StrT("c")>> >> }
ValueOpts == { <<>>, << <<"VALUE", NullT>> >>, << <<"VALUE", StrT("v")>> >> }

GoodParams == ObjToks(<< <<"TABLE_NAME", StrT("orders")>>, <<"COLUMN_NAME", StrT("id")>>,
                         <<"VALUE", NullT>> >>)
MainParams == ObjToks(<< <<"TABLE_NAME_MAIN", StrT("customers")>>, <<"TABLE_NAME", StrT("orders")>>,
                         <<"COLUMN_NAME", StrT("id")>>, <<"VALUE", StrT("v")>> >>)

ParamCells ==
    { Cell(ObjToks(m \o t \o c \o v)) :
        m \in MainOpts, t \in TableOpts, c \in ColumnOpts, v \in ValueOpts }
    \cup { NaN, Cell(<<WordT("n/a")>>), Cell(<<LB, RB>>),
           Cell(SubSeq(GoodParams, 1, Len(GoodParams) - 1)) }

SourceRow(name, params, result) ==
    [TEST_NAME |-> Str(name), TEST_PARAMETERS |-> params,
     TEST_RESULT_VALUE |-> result, TEST_QUERY |-> Str("q_" \o name)]

\* every combination of descriptor and result, for one-row tables
WideRows == { SourceRow("t1", p, r) : p \in ParamCells, r \in ResultCells }

\* the rows multi-row tables are built from
NarrowRows ==
    { SourceRow("not_null", Cell(GoodParams), Cell(GoodResult)),
      SourceRow("not_null", Cell(MainParams), Cell(TwoResult)),
      \* does not qualify, and its TEST_PARAMETERS is not parseable
      SourceRow("row_count", Cell(<<WordT("n/a")>>), Cell(<<WordT("PASS")>>)),
      \* qualifies, TEST_RESULT_VALUE truncated
      SourceRow("not_null", Cell(GoodParams), Cell(SubSeq(TwoResult, 1, 6))),
      \* qualifies, TEST_PARAMETERS truncated
      SourceRow("unique", Cell(SubSeq(GoodParams, 1, Len(GoodParams) - 1)), Cell(GoodResult)) }

NarrowTables == SeqsUpTo(NarrowRows, MaxRows)
WideTables == { <<r>> : r \in WideRows }

\* ------------------------------------------------------------------- state
VARIABLES
    table,        \* the remote table behind DQ_TABLE_ID
    cached,       \* st.cache_data holds a result for get_table
    cache,        \* ... and the table it holds
    pc,           \* position of the script run
    error,        \* the exception that ended the run ("" when none)
    raw,          \* df as read (line 22)
    filtered,     \* df after the Record Filter (line 28)
    described,    \* df with TABLE, COLUMN, CRITERIA (line 41)
    expanded,     \* the frame load_and_process_data returns (lines 60-64)
    sel,          \* the values held by the four sidebar multiselect widgets
    trigger,      \* the button whose click started this run ("none" otherwise)
    selected,     \* selected_table, selected_column, selected_test, selected_criteria
    df,           \* the global df after the sidebar filters (lines 78-85)
    view_mode,    \* st.session_state.view_mode ("unset" while the key is absent)
    chart_type,   \* the value of the chart type radio on display
    granularity,  \* the value of the granularity radio
    metrics,      \* the four st.metric values
    shown,        \* the frame given to st.dataframe
    csv,          \* the frame serialized for the download button
    prev,         \* history: what the previous run's load_and_process_data gave
    resetActive   \* history: Reset Filters was pressed and no filter was touched since

pipeVars == <<table, cached, cache, pc, error, raw, filtered, described, expanded>>
uiVars == <<sel, trigger, selected, df, view_mode, chart_type, granularity, metrics,
            shown, csv, prev, resetActive>>
vars == <<table, cached, cache, pc, error, raw, filtered, described, expanded,
          sel, trigger, selected, df, view_mode, chart_type, granularity, metrics,
          shown, csv, prev, resetActive>>

\* ---------------------------------------------------------------- pipeline
\* get_table, under st.cache_data: the cached value is handed out as a copy
GetTable ==
    /\ pc = "start"
    /\ raw' = IF cached THEN cache ELSE table
    /\ cache' = IF cached THEN cache ELSE table
    /\ cached' = TRUE
    /\ pc' = "loaded"
    /\ UNCHANGED <<table, error, filtered, described, expanded>>
    /\ UNCHANGED uiVars

\* faulty variant: the filter drops the rows from the cached frame itself
RecordFilterInPlace ==
    /\ pc = "loaded"
    /\ filtered' = SelectSeq(raw, KeepRow)
    /\ cache' = filtered'
    /\ pc' = "filtered"
    /\ UNCHANGED <<table, cached, error, raw, described, expanded>>
    /\ UNCHANGED uiVars

RecordFilter ==
    /\ pc = "loaded"
    /\ filtered' = SelectSeq(raw, KeepRow)
    /\ pc' = "filtered"
    /\ UNCHANGED <<table, cached, cache, error, raw, described, expanded>>
    /\ UNCHANGED uiVars

\* faulty variant: a row whose TEST_PARAMETERS does not parse is skipped
ParseQueriesSkip ==
    /\ pc = "filtered"
    /\ LET Parses(row) == parse_query(row.TEST_PARAMETERS).ok
           good == SelectSeq(filtered, Parses)
       IN described' = [i \in 1..Len(good) |-> Describe(good[i])]
    /\ pc' = "parsed"
    /\ UNCHANGED <<table, cached, cache, error, raw, filtered, expanded>>
    /\ UNCHANGED uiVars

\* df[['TABLE','COLUMN','CRITERIA']] = df['TEST_PARAMETERS'].apply(parse_query).apply(pd.Series)
ParseQueries ==
    /\ pc = "filtered"
    /\ IF filtered = <<>>
       THEN \* an empty Series has no three columns to assign
            /\ pc' = "error" /\ error' = "ValueError" /\ UNCHANGED described
       ELSE IF \E i \in 1..Len(filtered) : ~parse_query(filtered[i].TEST_PARAMETERS).ok
       THEN /\ pc' = "error" /\ error' = "parse_query" /\ UNCHANGED described
       ELSE /\ described' = [i \in 1..Len(filtered) |-> Describe(filtered[i])]
            /\ pc' = "parsed" /\ UNCHANGED error
    /\ UNCHANGED <<table, cached, cache, raw, filtered, expanded>>
    /\ UNCHANGED uiVars

\* expanded_rows = df.apply(expand_data, axis=1).explode().reset_index(drop=True)
ExpandRows ==
    /\ pc = "parsed"
    /\ IF \E i \in 1..Len(described) : ~expand_data(described[i]).ok
       THEN /\ pc' = "error" /\ error' = "expand_data" /\ UNCHANGED expanded
       ELSE /\ expanded' = Explode(described)
            /\ pc' = "exploded" /\ UNCHANGED error
    /\ UNCHANGED <<table, cached, cache, raw, filtered, described>>
    /\ UNCHANGED uiVars

\* return pd.DataFrame(expanded_rows.tolist()); df = load_and_process_data():
\* the function's own frames are gone
Return ==
    /\ pc = "exploded"
    /\ raw' = <<>> /\ filtered' = <<>> /\ described' = <<>>
    /\ pc' = "expanded"
    /\ UNCHANGED <<table, cached, cache, error, expanded>>
    /\ UNCHANGED uiVars

\* ------------------------------------------------------------ page script
Dims == {"TABLE", "COLUMN", "TEST_NAME", "CRITERIA"}
EmptySel == [d \in Dims |-> {}]
NoMetrics == [rendered |-> FALSE, issues |-> 0, tables |-> 0, columns |-> 0, tests |-> 0]
NoTable == [gran |-> "none", groups |-> {}, rows |-> <<>>]
NoPrev == [set |-> FALSE, ok |-> FALSE, rows |-> <<>>]

IsNA(v) == v.k = "null"

\* df[col].unique(): the options of a multiselect
Unique(frame, col) == {frame[i][col] : i \in 1..Len(frame)}

\* df[col].nunique(): NA is not counted
NUnique(frame, col) == Cardinality({v \in Unique(frame, col) : ~IsNA(v)})

\* df[df[col].isin(values)]
IsIn(frame, col, values) ==
    LET Test(r) == r[col] \in values IN SelectSeq(frame, Test)

\* faulty variant: every filter is applied to the unfiltered frame, the last one wins
ApplyFiltersRestart(frame, selected_table, selected_column, selected_test, selected_criteria) ==
    LET d1 == IF selected_table # {} THEN IsIn(frame, "TABLE", selected_table) ELSE frame
        d2 == IF selected_column # {} THEN IsIn(frame, "COLUMN", selected_column) ELSE d1
        d3 == IF selected_test # {} THEN IsIn(frame, "TEST_NAME", selected_test) ELSE d2
        d4 == IF selected_criteria # {} THEN IsIn(frame, "CRITERIA", selected_criteria) ELSE d3
    IN d4

\* lines 78-85
ApplyFilters(frame, selected_table, selected_column, selected_test, selected_criteria) ==
    LET d1 == IF selected_table # {} THEN IsIn(frame, "TABLE", selected_table) ELSE frame
        d2 == IF selected_column # {} THEN IsIn(d1, "COLUMN", selected_column) ELSE d1
        d3 == IF selected_test # {} THEN IsIn(d2, "TEST_NAME", selected_test) ELSE d2
        d4 == IF selected_criteria # {} THEN IsIn(d3, "CRITERIA", selected_criteria) ELSE d3
    IN d4

GroupKey(r) == [TABLE |-> r.TABLE, COLUMN |-> r.COLUMN, TEST_NAME |-> r.TEST_NAME,
                CRITERIA |-> r.CRITERIA]

\* df.groupby(['TABLE','COLUMN','TEST_NAME','CRITERIA']).agg({'OCCURRENCES': 'sum'}).reset_index()
\* groupby's default dropna=True leaves out every row with an NA key
GroupBySum(frame) ==
    LET Keyed(r) == ~IsNA(r.TABLE) /\ ~IsNA(r.COLUMN) /\ ~IsNA(r.TEST_NAME) /\ ~IsNA(r.CRITERIA)
        keys == {GroupKey(frame[i]) : i \in {j \in 1..Len(frame) : Keyed(frame[j])}}
        Members(key) == LET Test(r) == GroupKey(r) = key IN SelectSeq(frame, Test)
    IN {[TABLE |-> key.TABLE, COLUMN |-> key.COLUMN, TEST_NAME |-> key.TEST_NAME,
         CRITERIA |-> key.CRITERIA, OCCURRENCES |-> SumOcc(Members(key))] : key \in keys}

convert_df_to_csv(frame, gran) ==
    IF gran = "Summary"
    THEN [gran |-> gran, groups |-> GroupBySum(frame), rows |-> <<>>]
    ELSE [gran |-> gran, groups |-> {}, rows |-> frame]

\* a new script run: the locals of the last run are gone, the widget and
\* session state stay
StartRun ==
    /\ pc' = "start" /\ error' = ""
    /\ raw' = <<>> /\ filtered' = <<>> /\ described' = <<>> /\ expanded' = <<>>
    /\ df' = <<>> /\ selected' = EmptySel
    /\ metrics' = NoMetrics /\ shown' = NoTable /\ csv' = NoTable
    /\ prev' = [set |-> TRUE, ok |-> pc # "error", rows |-> expanded]
    /\ UNCHANGED <<table, cached, cache>>

\* lines 66-85: the multiselects, the Reset Filters button, the filters
Sidebar ==
    /\ pc = "expanded"
    /\ selected' = IF trigger = "reset" THEN EmptySel ELSE sel
    /\ df' = ApplyFilters(expanded, selected'["TABLE"], selected'["COLUMN"],
                          selected'["TEST_NAME"], selected'["CRITERIA"])
    /\ pc' = "sidebar"
    /\ UNCHANGED <<table, cached, cache, error, raw, filtered, described, expanded>>
    /\ UNCHANGED <<sel, trigger, view_mode, chart_type, granularity, metrics, shown, csv,
                   prev, resetActive>>

\* faulty variant: the view mode is set to its default in every run
HeaderResetsView ==
    /\ pc = "sidebar"
    /\ view_mode' = "overview"
    /\ metrics' = [rendered |-> TRUE, issues |-> SumOcc(df),
                   tables |-> NUnique(df, "TABLE"), columns |-> NUnique(df, "COLUMN"),
                   tests |-> NUnique(df, "TEST_NAME")]
    /\ pc' = "header"
    /\ UNCHANGED <<table, cached, cache, error, raw, filtered, described, expanded>>
    /\ UNCHANGED <<sel, trigger, selected, df, chart_type, granularity, shown, csv,
                   prev, resetActive>>

\* lines 87-100: the view mode's default, the metrics
Header ==
    /\ pc = "sidebar"
    /\ view_mode' = IF view_mode = "unset" THEN "overview" ELSE view_mode
    /\ metrics' = [rendered |-> TRUE, issues |-> SumOcc(df),
                   tables |-> NUnique(df, "TABLE"), columns |-> NUnique(df, "COLUMN"),
                   tests |-> NUnique(df, "TEST_NAME")]
    /\ pc' = "header"
    /\ UNCHANGED <<table, cached, cache, error, raw, filtered, described, expanded>>
    /\ UNCHANGED <<sel, trigger, selected, df, chart_type, granularity, shown, csv,
                   prev, resetActive>>

\* lines 103-152: the chart of the view on display and its toggle button;
\* a pressed button stores the other view and re-runs the script at once
ViewSection ==
    /\ pc = "header"
    /\ IF view_mode = "overview" /\ trigger = "detail"
       THEN /\ view_mode' = "detail" /\ trigger' = "none" /\ chart_type' = "Pie Chart"
            /\ StartRun
       ELSE IF view_mode # "overview" /\ trigger = "overview"
       THEN /\ view_mode' = "overview" /\ trigger' = "none" /\ chart_type' = "Pie Chart"
            /\ StartRun
       ELSE /\ pc' = "view"
            /\ UNCHANGED <<table, cached, cache, error, raw, filtered, described, expanded>>
            /\ UNCHANGED <<trigger, selected, df, view_mode, chart_type, metrics, shown,
                           csv, prev>>
    /\ UNCHANGED <<sel, granularity, resetActive>>

\* lines 154-175: the table on display and the CSV behind the download button
DetailedData ==
    /\ pc = "view"
    /\ shown' = IF granularity = "Summary"
                THEN [gran |-> granularity, groups |-> GroupBySum(df), rows |-> <<>>]
                ELSE [gran |-> granularity, groups |-> {}, rows |-> df]
    /\ csv' = convert_df_to_csv(df, granularity)
    \* the run is over: a button reads True in the run its click started only
    /\ trigger' = "none"
    /\ pc' = "idle"
    /\ UNCHANGED <<table, cached, cache, error, raw, filtered, described, expanded>>
    /\ UNCHANGED <<sel, selected, df, view_mode, chart_type, granularity, metrics,
                   prev, resetActive>>

\* ------------------------------------------------------- user interactions
\* each one changes a widget's state and starts a new script run

\* an option of a multiselect is picked or removed
ToggleOption ==
    /\ pc = "idle"
    /\ \E dim \in Dims : \E v \in Unique(expanded, dim) :
          sel' = [sel EXCEPT ![dim] = IF v \in @ THEN @ \ {v} ELSE @ \cup {v}]
    /\ trigger' = "none" /\ resetActive' = FALSE
    /\ StartRun
    /\ UNCHANGED <<view_mode, chart_type, granularity>>

PressReset ==
    /\ pc = "idle"
    /\ trigger' = "reset" /\ resetActive' = TRUE
    /\ StartRun
    /\ UNCHANGED <<sel, view_mode, chart_type, granularity>>

\* the Detail button is on the page in the overview only
PressDetail ==
    /\ pc = "idle" /\ view_mode = "overview"
    /\ trigger' = "detail"
    /\ StartRun
    /\ UNCHANGED <<sel, view_mode, chart_type, granularity, resetActive>>

PressOverview ==
    /\ pc = "idle" /\ view_mode = "detail"
    /\ trigger' = "overview"
    /\ StartRun
    /\ UNCHANGED <<sel, view_mode, chart_type, granularity, resetActive>>

ChangeChartType ==
    /\ pc = "idle"
    /\ chart_type' = IF chart_type = "Pie Chart" THEN "Bar Chart" ELSE "Pie Chart"
    /\ trigger' = "none"
    /\ StartRun
    /\ UNCHANGED <<sel, view_mode, granularity, resetActive>>

ChangeGranularity ==
    /\ pc = "idle"
    /\ granularity' = IF granularity = "Summary" THEN "Detailed" ELSE "Summary"
    /\ trigger' = "none"
    /\ StartRun
    /\ UNCHANGED <<sel, view_mode, chart_type, resetActive>>

PressDownload ==
    /\ pc = "idle"
    /\ trigger' = "download"
    /\ StartRun
    /\ UNCHANGED <<sel, view_mode, chart_type, granularity, resetActive>>

\* the user re-runs a page that ended in an exception
Rerun ==
    /\ pc = "error"
    /\ trigger' = "none"
    /\ StartRun
    /\ UNCHANGED <<sel, view_mode, chart_type, granularity, resetActive>>

UiInit ==
    /\ sel = EmptySel /\ trigger = "none" /\ selected = EmptySel /\ df = <<>>
    /\ view_mode = "unset" /\ chart_type = "Pie Chart" /\ granularity = "Summary"
    /\ metrics = NoMetrics /\ shown = NoTable /\ csv = NoTable
    /\ prev = NoPrev /\ resetActive = FALSE

RunInit ==
    /\ cached = FALSE /\ cache = <<>>
    /\ pc = "start" /\ error = ""
    /\ raw = <<>> /\ filtered = <<>> /\ described = <<>> /\ expanded = <<>>

\* the pipeline alone, over every descriptor and every result value
PipelineInit ==
    /\ table \in WideTables \cup NarrowTables
    /\ RunInit /\ UiInit

PipelineNext == GetTable \/ RecordFilter \/ ParseQueries \/ ExpandRows \/ Return

PipelineSpec == PipelineInit /\ [][PipelineNext]_vars

\* a session of the dashboard
Init ==
    /\ table \in NarrowTables
    /\ RunInit /\ UiInit

Next ==
    \/ GetTable \/ RecordFilter \/ ParseQueries \/ ExpandRows \/ Return
    \/ Sidebar \/ Header \/ ViewSection \/ DetailedData
    \/ ToggleOption \/ PressReset \/ PressDetail \/ PressOverview
    \/ ChangeChartType \/ ChangeGranularity \/ PressDownload \/ Rerun

Spec == Init /\ [][Next]_vars

\* ================================================================== claims

\* the rows of a frame, in order, that satisfy the prefix condition as stated
HasSentinel(row) ==
    LET v == row.TEST_RESULT_VALUE IN
    /\ v.isStr
    /\ Len(v.toks) >= 3
    /\ v.toks[1] = LB /\ v.toks[2] = LC /\ v.toks[3] = StrT("OCCURRENCES")

RECURSIVE Kept(_)
Kept(rows) ==
    IF rows = <<>> THEN <<>>
    ELSE (IF HasSentinel(Head(rows)) THEN <<Head(rows)>> ELSE <<>>) \o Kept(Tail(rows))

ParamsIsObject(row) ==
    LET p == json_loads(row.TEST_PARAMETERS) IN p.ok /\ p.val.k = "obj"

ResultIsArray(row) ==
    LET p == json_loads(row.TEST_RESULT_VALUE) IN p.ok /\ p.val.k = "arr"

\* the parsed offender array of a row
ArrayOf(row) == json_loads(row.TEST_RESULT_VALUE).val.items

RECURSIVE LenBefore(_, _)
\* how many offenders the rows before the i-th hold
LenBefore(rows, i) ==
    IF i <= 1 THEN 0 ELSE LenBefore(rows, i - 1) + Len(ArrayOf(rows[i - 1]))

RECURSIVE SumElems(_)
\* the OCCURRENCES of the elements of a parsed array, an absent key counting 0
SumElems(items) ==
    IF items = <<>> THEN 0
    ELSE (IF "OCCURRENCES" \in DOMAIN Head(items).d
          THEN Head(items).d["OCCURRENCES"].n ELSE 0) + SumElems(Tail(items))

RECURSIVE SumGroups(_)
SumGroups(groups) ==
    IF groups = {} THEN 0
    ELSE LET g == CHOOSE x \in groups : TRUE IN g.OCCURRENCES + SumGroups(groups \ {g})

Count(x, rows) == Cardinality({i \in 1..Len(rows) : rows[i] = x})
SameBag(a, b) ==
    /\ Len(a) = Len(b)
    /\ \A x \in Range(a) \cup Range(b) : Count(x, a) = Count(x, b)

Loaded == pc \in {"exploded", "expanded", "sidebar", "header", "view", "idle"}
Filtered == pc \in {"sidebar", "header", "view", "idle"}

\* C1: the Record Filter returns exactly the rows whose TEST_RESULT_VALUE is a
\* string with the prefix [{"OCCURRENCES", in input order, and raises no error
\* whatever the dropped rows hold.
C1_FilterExact ==
    /\ pc = "filtered" => error = ""
    /\ pc \in {"filtered", "parsed", "exploded", "error"} => filtered = Kept(raw)

C1_Witness ==
    /\ pc = "filtered"
    /\ Len(raw) = 2 /\ Len(filtered) = 1
    /\ \E i \in 1..Len(raw) :
          /\ ~HasSentinel(raw[i])
          /\ ~ParamsIsObject(raw[i])

\* C2: the Offender Expander emits one ExpandedRow per element of each
\* qualifying row's array, in array order, with OFFENDERS (default "") and
\* OCCURRENCES (default 0) of the element and the row's TABLE, COLUMN,
\* TEST_NAME, CRITERIA, TEST_QUERY; the output is the concatenation over rows.
C2_ExpandPerElement ==
    pc = "exploded" =>
       /\ Len(described) = Len(filtered)
       /\ Len(expanded) = LenBefore(described, Len(described) + 1)
       /\ \A i \in 1..Len(described) : \A j \in 1..Len(ArrayOf(described[i])) :
             LET e == expanded[LenBefore(described, i) + j]
                 el == ArrayOf(described[i])[j].d
             IN /\ e.OFFENDERS = (IF "OFFENDERS" \in DOMAIN el THEN el["OFFENDERS"] ELSE Str(""))
                /\ e.OCCURRENCES = (IF "OCCURRENCES" \in DOMAIN el THEN el["OCCURRENCES"] ELSE Num(0))
                /\ e.TABLE = described[i].TABLE
                /\ e.COLUMN = described[i].COLUMN
                /\ e.CRITERIA = described[i].CRITERIA
                /\ e.TEST_NAME = filtered[i].TEST_NAME
                /\ e.TEST_QUERY = filtered[i].TEST_QUERY

C2_Witness ==
    /\ pc = "exploded"
    /\ Len(expanded) = 2 /\ Len(filtered) = 1
    /\ expanded[1].OFFENDERS = Str("x") /\ expanded[1].OCCURRENCES = Num(2)
    /\ expanded[2].OFFENDERS = Str("") /\ expanded[2].OCCURRENCES = Num(1)

\* C3: TABLE is TABLE_NAME_MAIN when present and truthy, else TABLE_NAME when
\* present, else ""; COLUMN and CRITERIA are COLUMN_NAME and VALUE when present
\* (a null VALUE stays null), else ""; a missing key raises no error.
C3_QueryResolution ==
    /\ pc = "parsed" =>
          \A i \in 1..Len(filtered) :
             LET o == json_loads(filtered[i].TEST_PARAMETERS).val.d
                 Has(key) == key \in DOMAIN o
             IN /\ described[i].TABLE =
                      (IF Has("TABLE_NAME_MAIN") /\ o["TABLE_NAME_MAIN"] \notin {Str(""), Null, Num(0)}
                       THEN o["TABLE_NAME_MAIN"]
                       ELSE IF Has("TABLE_NAME") THEN o["TABLE_NAME"] ELSE Str(""))
                /\ described[i].COLUMN = (IF Has("COLUMN_NAME") THEN o["COLUMN_NAME"] ELSE Str(""))
                /\ described[i].CRITERIA = (IF Has("VALUE") THEN o["VALUE"] ELSE Str(""))
    /\ (pc = "error" /\ error = "parse_query") =>
          \E i \in 1..Len(filtered) : ~ParamsIsObject(filtered[i])

C3_Witness ==
    /\ pc = "parsed"
    /\ \E i \in 1..Len(filtered) :
          LET o == json_loads(filtered[i].TEST_PARAMETERS).val.d IN
          /\ "TABLE_NAME_MAIN" \in DOMAIN o /\ o["TABLE_NAME_MAIN"] = Str("")
          /\ "TABLE_NAME" \in DOMAIN o
          /\ "COLUMN_NAME" \notin DOMAIN o
          /\ "VALUE" \in DOMAIN o /\ o["VALUE"] = Null
          /\ described[i].TABLE = Str("B")
          /\ described[i].CRITERIA = Null

\* a row that passes the filter and whose descriptor or result does not parse
Malformed(row) == HasSentinel(row) /\ (~ParamsIsObject(row) \/ ~ResultIsArray(row))
WellFormed(row) == HasSentinel(row) /\ ParamsIsObject(row) /\ ResultIsArray(row)

\* C4: when a row that passes the filter has an unparseable TEST_PARAMETERS or
\* TEST_RESULT_VALUE, the run yields no ExpandedRows and no later stage runs.
C4_ParseErrorFatal ==
    (\E i \in 1..Len(table) : Malformed(table[i])) =>
       /\ pc \in {"start", "loaded", "filtered", "parsed", "error"}
       /\ expanded = <<>> /\ df = <<>>
       /\ ~metrics.rendered /\ shown = NoTable /\ csv = NoTable

C4_Witness ==
    /\ pc = "error"
    /\ \E i \in 1..Len(table) : Malformed(table[i])
    /\ \E j \in 1..Len(table) : WellFormed(table[j])

\* C5: the filtered set is exactly the rows that, for each dimension with a
\* non-empty selection, have the dimension's value among the selected ones; an
\* empty selection imposes no restriction.
C5_FilterSemantics ==
    Filtered =>
       LET Matches(r) == \A dim \in Dims : selected[dim] = {} \/ r[dim] \in selected[dim]
       IN df = SelectSeq(expanded, Matches)

C5_Witness ==
    /\ pc = "idle"
    /\ selected["TABLE"] # {} /\ selected["CRITERIA"] # {}
    /\ Cardinality(selected["TABLE"]) = 2
    /\ df # <<>> /\ Len(df) < Len(expanded)

\* C6: after Reset Filters the four selections are empty in that run and stay
\* empty in every following run until the user selects values again.
C6_ResetStaysCleared ==
    (resetActive /\ Filtered) => (selected = EmptySel /\ df = expanded)

\* C7: the view mode is overview or detail whenever the page shows it, starts
\* as overview, and changes only by Detail pressed in overview or Overview
\* pressed in detail; every other interaction leaves it unchanged.
C7_ViewModePersists ==
    [][ /\ (pc' \in {"header", "view", "idle"}) => view_mode' \in {"overview", "detail"}
        /\ view_mode' # view_mode =>
              \/ view_mode = "unset" /\ view_mode' = "overview"
              \/ view_mode = "overview" /\ trigger = "detail" /\ view_mode' = "detail"
              \/ view_mode = "detail" /\ trigger = "overview" /\ view_mode' = "overview" ]_vars

C7_Witness ==
    /\ pc = "idle" /\ view_mode = "detail"
    /\ granularity = "Detailed" /\ chart_type = "Bar Chart"
    /\ resetActive /\ sel # EmptySel /\ csv.rows # <<>>

\* C8: the OCCURRENCES of the ExpandedRows made from a row sum to the
\* OCCURRENCES of the elements of its parsed array, an absent key counting 0.
C8_SumLaw ==
    pc = "exploded" =>
       \A i \in 1..Len(described) :
          LET from == LenBefore(described, i)
              items == ArrayOf(described[i])
          IN SumOcc(SubSeq(expanded, from + 1, from + Len(items))) = SumElems(items)

C8_Witness ==
    /\ pc = "exploded"
    /\ \E i \in 1..Len(described) :
          LET items == ArrayOf(described[i]) IN
          /\ Len(items) = 2
          /\ "OCCURRENCES" \notin DOMAIN items[2].d
          /\ SumElems(items) = 2

\* C9: every run of the pipeline on the same table gives the same multiset of
\* ExpandedRows as the run before it, and leaves the table as read unchanged.
C9_Idempotent ==
    /\ cached => cache = table
    /\ (prev.set /\ Loaded) => (prev.ok /\ SameBag(expanded, prev.rows))
    /\ (prev.set /\ pc = "error") => ~prev.ok

C9_Witness ==
    /\ prev.set /\ pc = "idle"
    /\ Len(expanded) = 3 /\ Len(table) = 2
    /\ sel # EmptySel /\ Len(df) < Len(expanded)

\* C10: under the Summary granularity the OCCURRENCES of the groups shown and
\* exported sum to the Total Issues metric.
C10_SummaryLosesNothing ==
    (pc = "idle" /\ granularity = "Summary") =>
       /\ SumGroups(shown.groups) = metrics.issues
       /\ SumGroups(csv.groups) = metrics.issues

====
